---- MODULE Spec2Model ----
(***************************************************************************)
(* Model of gulpfile.js: the `build` and `autobuild` tasks, the bundling   *)
(* job constructor getBundler, the bundle pipeline and the .autobuild flag *)
(* file.                                                                   *)
(*                                                                         *)
(* Strings that the code takes apart (paths) are sequences of tokens, so   *)
(* String.replace and gulp-rename are computed, not assumed.  The library  *)
(* objects the file uses (gulp, shell, browserify, watchify, ...) are      *)
(* taken as bound to their documented behaviour; identifiers of the file   *)
(* itself are looked up in the table of constants it declares.             *)
(***************************************************************************)
EXTENDS Integers, Sequences, FiniteSets, TLC

\* ------------------------------------------------------------------ bounds
MaxBuilds == 2      \* manual `build` runs explored
MaxUpdates == 2     \* watchify "update" notifications explored

\* ----------------------------------------------------------- configuration
\* file.base of every file gulp.src(APPS_GLOB) emits (resolved glob parent)
AppsBase == <<"/", "w", "/", "client", "/", "apps", "/">>

APPS_DIST_DIR == <<"/", "w", "/", "public", "/", "apps", "/">>

EXTERNAL_LIBS == {"jquery", "bootstrap"}

BROWSERIFY_TRANSFORMS == <<"brfs">>

\* The identifiers the file declares with `const`, with the values the model
\* needs.  AUTOBUILD_FLAG_FILE (used at line 152) is not among them.
ConstValue ==
    [ LAST_DEPENDENCY_UPDATE_ID_FILE |-> ".npmDependenciesLastCommitId",
      AUTO_BUILD_FLAG_FILE           |-> ".autobuild" ]

Defined(name) == name \in DOMAIN ConstValue

AUTO_BUILD_FLAG_FILE == ConstValue["AUTO_BUILD_FLAG_FILE"]

\* watchify.args, the options object shared by every watchify bundler
WatchifyArgs0 == [cache |-> "{}", packageCache |-> "{}", fullPaths |-> TRUE]

\* ------------------------------------------------------------ source tree
\* Vinyl files: base and path.
File(rel) == [base |-> AppsBase, path |-> AppsBase \o rel]

FA == File(<<"a", ".", "js">>)
FB == File(<<"login", "/", "b", ".", "js">>)
FC == File(<<"c", ".", "d", ".", "js">>)
FX == File(<<"r", ".", "css">>)

SourceTree == {FA, FB, FC, FX}

\* ------------------------------------------------------- string functions
IsAt(s, pat, i) ==
    /\ i + Len(pat) - 1 <= Len(s)
    /\ SubSeq(s, i, i + Len(pat) - 1) = pat

\* String.prototype.replace(pattern: string, replacement): first occurrence
Replace(s, pat, rep) ==
    LET hits == {i \in 1..Len(s) : IsAt(s, pat, i)}
    IN  IF hits = {} THEN s
        ELSE LET i == CHOOSE k \in hits : \A m \in hits : k <= m
             IN  SubSeq(s, 1, i - 1) \o rep \o SubSeq(s, i + Len(pat), Len(s))

\* index of the first token of the basename
BaseStart(p) ==
    LET sl == {i \in 1..Len(p) : p[i] = "/"}
    IN  IF sl = {} THEN 1 ELSE (CHOOSE k \in sl : \A m \in sl : m <= k) + 1

\* index of the "." that starts path.extname(p), 0 when there is none
ExtStart(p) ==
    LET b == BaseStart(p)
        dots == {i \in (b + 1)..Len(p) : p[i] = "."}
    IN  IF dots = {} THEN 0 ELSE CHOOSE k \in dots : \A m \in dots : m <= k

\* gulp-rename({suffix: s}): dirname/basename + s + extname
rename(p, suffix) ==
    LET e == ExtStart(p)
    IN  IF e = 0 THEN p \o suffix
        ELSE SubSeq(p, 1, e - 1) \o suffix \o SubSeq(p, e, Len(p))

\* APPS_GLOB = JS_BASE_DIR + "/apps/**/*.js"
GlobMatch(f) ==
    /\ Len(f.path) > Len(AppsBase) + 2
    /\ IsAt(f.path, AppsBase, 1)
    /\ SubSeq(f.path, Len(f.path) - 1, Len(f.path)) = <<".", "js">>
    /\ f.path[BaseStart(f.path)] # "."

Entries == {f \in SourceTree : GlobMatch(f)}

\* ------------------------------------------------------------- getBundler
\* _.extend(dst, src): copies src's keys into dst and returns dst
Extend(dst, src) ==
    [k \in DOMAIN dst \cup DOMAIN src |->
        IF k \in DOMAIN src THEN src[k] ELSE dst[k]]

EmptyObj == [k \in {} |-> TRUE]

\* an argument that was not passed, and one that refers to an object
Undefined == [defined |-> FALSE, obj |-> EmptyObj]

Ref(o) == [defined |-> TRUE, obj |-> o]

\* getBundler(file, options).  The result carries the bundler and the object
\* `options` refers to after the _.extend (which is the caller's object when
\* one was passed: _.extend writes into its first argument).
getBundler(file, options) ==
    LET opts == Extend(IF options.defined THEN options.obj ELSE EmptyObj,
                       [debug |-> TRUE, transform |-> BROWSERIFY_TRANSFORMS])
    IN  [ bundler |-> [entry |-> file.path, opts |-> opts,
                       external |-> EXTERNAL_LIBS],
          options |-> opts ]

\* ------------------------------------------------------------------ shell
ShellRmKeep(files, name) == files

\* shell.rm("-f", name)
ShellRm(files, name) == files \ {name}

\* shell.exec("touch " + name)
ShellTouch(files, name) == files \cup {name}

\* ------------------------------------------------------------------ state
VARIABLES
    markers,        \* marker files present in the working directory
    dist,           \* artifacts on disk: output path -> who wrote it last
    log,            \* files for which "Browserify Error" was logged
    buildPc,        \* build task: "idle", "running", "done", "error"
    pass,           \* number of build runs started
    seen,           \* entries the current build pass has handed to forEach
    jobs,           \* bundle() pipelines in flight or finished
    autoPc,         \* autobuild task: "idle", "running", "failed"
    watched,        \* entries whose bundler has the "update" handler
    watchifyArgs,   \* the watchify.args object
    rebundleCalls,  \* history: invocations of rebundle per entry
    updates,        \* history: "update" notifications delivered
    autoSinceClear, \* history: rebundle invoked since the flag was cleared
    flagAtStart     \* history: flag present when the current pass started

vars == <<markers, dist, log, buildPc, pass, seen, jobs, autoPc, watched,
          watchifyArgs, rebundleCalls, updates, autoSinceClear, flagAtStart>>

flag == AUTO_BUILD_FLAG_FILE \in markers

Put(d, k, v) == [x \in DOMAIN d \cup {k} |-> IF x = k THEN v ELSE d[x]]

Init ==
    /\ markers \in SUBSET {AUTO_BUILD_FLAG_FILE}
    /\ dist = [p \in {} |-> TRUE]
    /\ log = {}
    /\ buildPc = "idle"
    /\ pass = 0
    /\ seen = {}
    /\ jobs = {}
    /\ autoPc = "idle"
    /\ watched = {}
    /\ watchifyArgs = WatchifyArgs0
    /\ rebundleCalls = [f \in Entries |-> 0]
    /\ updates = 0
    /\ autoSinceClear = (AUTO_BUILD_FLAG_FILE \in markers)
    /\ flagAtStart = FALSE

\* ----------------------------------------------------------------- bundle
relativeFilenameBase(file) ==
    SubSeq(file.path, BaseStart(file.path), Len(file.path))

\* var relativeFilename = file.path.replace(file.base, "")
relativeFilename(file) == Replace(file.path, file.base, <<>>)

\* bundle(file, bundler): the pipeline is started; its steps follow below
bundle(task, file, n, bundler) ==
    [task |-> task, file |-> file, n |-> n, bundler |-> bundler,
     name |-> relativeFilename(file), stage |-> "bundling", out |-> <<>>]

Live(j) == j.task = "autobuild" \/ (buildPc = "running" /\ j.n = pass)

AfterErrorAbort(pc, j) == IF j.task = "build" THEN "error" ELSE pc

\* .on("error", util.log.bind(util, "Browserify Error")): the error is
\* handled by logging, the task goes on
AfterError(pc, j) == pc

\* bundler.bundle() fails or delivers the bundle
BundleRun(j, ok) ==
    /\ j \in jobs /\ Live(j) /\ j.stage = "bundling"
    /\ IF ok
         THEN /\ jobs' = (jobs \ {j}) \cup {[j EXCEPT !.stage = "bundled"]}
              /\ UNCHANGED <<log, buildPc>>
         ELSE /\ jobs' = (jobs \ {j}) \cup {[j EXCEPT !.stage = "failed"]}
              /\ log' = log \cup {j.file}
              /\ buildPc' = AfterError(buildPc, j)
    /\ UNCHANGED <<markers, dist, pass, seen, autoPc, watched, watchifyArgs,
                   rebundleCalls, updates, autoSinceClear, flagAtStart>>

\* source(relativeFilename) ... first gulp.dest(APPS_DIST_DIR)
WriteUnmin(j) ==
    /\ j \in jobs /\ Live(j) /\ j.stage = "bundled"
    /\ LET p == APPS_DIST_DIR \o j.name
       IN  /\ dist' = Put(dist, p, [entry |-> j.file.path, min |-> FALSE,
                                    task |-> j.task])
           /\ jobs' = (jobs \ {j}) \cup
                 {[j EXCEPT !.stage = "unmin", !.out = Append(@, p)]}
    /\ UNCHANGED <<markers, log, buildPc, pass, seen, autoPc, watched,
                   watchifyArgs, rebundleCalls, updates, autoSinceClear,
                   flagAtStart>>

\* uglify, sourcemaps.write, rename({suffix: ".min"}), second gulp.dest
WriteMin(j) ==
    /\ j \in jobs /\ Live(j) /\ j.stage = "unmin"
    /\ LET p == APPS_DIST_DIR \o rename(j.name, <<".", "min">>)
       IN  /\ dist' = Put(dist, p, [entry |-> j.file.path, min |-> TRUE,
                                    task |-> j.task])
           /\ jobs' = (jobs \ {j}) \cup
                 {[j EXCEPT !.stage = "done", !.out = Append(@, p)]}
    /\ UNCHANGED <<markers, log, buildPc, pass, seen, autoPc, watched,
                   watchifyArgs, rebundleCalls, updates, autoSinceClear,
                   flagAtStart>>

\* ------------------------------------------------------------------ build
PassJobs == {j \in jobs : j.task = "build" /\ j.n = pass}

\* the files handed to forEach synchronously, before the rm is reached
BuildTaskSync ==
    /\ buildPc \in {"idle", "done"}
    /\ pass < MaxBuilds
    /\ pass' = pass + 1
    /\ buildPc' = "running"
    /\ seen' = Entries
    /\ jobs' = {j \in jobs : j.task # "build"} \cup
          {bundle("build", f, pass + 1, getBundler(f, Undefined).bundler) :
              f \in Entries}
    /\ markers' = ShellRm(markers, AUTO_BUILD_FLAG_FILE)
    /\ autoSinceClear' = FALSE
    /\ flagAtStart' = flag
    /\ UNCHANGED <<dist, log, autoPc, watched, watchifyArgs, rebundleCalls,
                   updates>>

\* gulp.task("build"): the stream is set up, the flag file is removed, the
\* stream is returned; files flow through forEach afterwards
BuildTask ==
    /\ buildPc \in {"idle", "done"}
    /\ pass < MaxBuilds
    /\ pass' = pass + 1
    /\ buildPc' = "running"
    /\ seen' = {}
    /\ jobs' = {j \in jobs : j.task # "build"}
    /\ markers' = ShellRm(markers, AUTO_BUILD_FLAG_FILE)
    /\ autoSinceClear' = FALSE
    /\ flagAtStart' = flag
    /\ UNCHANGED <<dist, log, autoPc, watched, watchifyArgs, rebundleCalls,
                   updates>>

\* forEach callback of build: return bundle(file, getBundler(file))
BuildForEach(f) ==
    /\ buildPc = "running"
    /\ f \in Entries \ seen
    /\ seen' = seen \cup {f}
    /\ jobs' = jobs \cup
          {bundle("build", f, pass, getBundler(f, Undefined).bundler)}
    /\ UNCHANGED <<markers, dist, log, buildPc, pass, autoPc, watched,
                   watchifyArgs, rebundleCalls, updates, autoSinceClear,
                   flagAtStart>>

\* the returned stream ends: every entry was handed over and every pipeline
\* of the pass has ended
BuildFinish ==
    /\ buildPc = "running"
    /\ seen = Entries
    /\ \A j \in PassJobs : j.stage \in {"done", "failed"}
    /\ buildPc' = "done"
    /\ UNCHANGED <<markers, dist, log, pass, seen, jobs, autoPc, watched,
                   watchifyArgs, rebundleCalls, updates, autoSinceClear,
                   flagAtStart>>

\* -------------------------------------------------------------- autobuild
\* function rebundle(): shell.exec("touch " + AUTOBUILD_FLAG_FILE) and then
\* bundle(file, bundler).  Reading an undeclared identifier throws a
\* ReferenceError, which ends the call before anything else happens;
\* `threw` tells the caller.
rebundle(f, bundler, threw) ==
    /\ rebundleCalls' = [rebundleCalls EXCEPT ![f] = @ + 1]
    /\ autoSinceClear' = TRUE
    /\ IF Defined("AUTOBUILD_FLAG_FILE")
         THEN /\ markers' = ShellTouch(markers,
                                       ConstValue["AUTOBUILD_FLAG_FILE"])
              /\ jobs' = jobs \cup
                    {bundle("autobuild", f, rebundleCalls[f] + 1, bundler)}
              /\ threw = FALSE
         ELSE /\ UNCHANGED <<markers, jobs>>
              /\ threw = TRUE

\* gulp.task("autobuild"): the stream is set up and returned
AutobuildTask ==
    /\ autoPc = "idle"
    /\ autoPc' = "running"
    /\ UNCHANGED <<markers, dist, log, buildPc, pass, seen, jobs, watched,
                   watchifyArgs, rebundleCalls, updates, autoSinceClear,
                   flagAtStart>>

\* forEach callback of autobuild: watchify(getBundler(file, watchify.args)),
\* bundler.on("update", rebundle), return rebundle().  An exception leaving
\* the callback fails the task's stream.
AutobuildForEach(f) ==
    /\ autoPc = "running"
    /\ f \in Entries \ watched
    /\ LET g == getBundler(f, Ref(watchifyArgs))
       IN  /\ watchifyArgs' = g.options
           /\ watched' = watched \cup {f}
           /\ \E threw \in BOOLEAN :
                 /\ rebundle(f, g.bundler, threw)
                 /\ autoPc' = IF threw THEN "failed" ELSE autoPc
    /\ UNCHANGED <<dist, log, buildPc, pass, seen, updates, flagAtStart>>

\* the bundler of f emits "update": the registered rebundle runs
Update(f) ==
    /\ f \in watched
    /\ updates < MaxUpdates
    /\ updates' = updates + 1
    /\ \E threw \in BOOLEAN :
          rebundle(f, getBundler(f, Ref(watchifyArgs)).bundler, threw)
    /\ UNCHANGED <<dist, log, buildPc, pass, seen, autoPc, watched,
                   watchifyArgs, flagAtStart>>

\* ------------------------------------------------------------------- spec
Next ==
    \/ BuildTask
    \/ \E f \in Entries : BuildForEach(f)
    \/ \E j \in jobs : \E ok \in BOOLEAN : BundleRun(j, ok)
    \/ \E j \in jobs : WriteUnmin(j)
    \/ \E j \in jobs : WriteMin(j)
    \/ BuildFinish
    \/ AutobuildTask
    \/ \E f \in Entries : AutobuildForEach(f)
    \/ \E f \in Entries : Update(f)

Spec == Init /\ [][Next]_vars

\* ----------------------------------------------------------------- claims
\* path of an entry relative to its source root, and its two output paths,
\* stated without the operators the pipeline uses
Rel(f) == SubSeq(f.path, Len(f.base) + 1, Len(f.path))

ExpectedUnmin(f) == APPS_DIST_DIR \o Rel(f)

ExpectedMin(f) ==
    APPS_DIST_DIR \o SubSeq(Rel(f), 1, Len(Rel(f)) - 2)
                  \o <<".", "min">> \o <<".", "js">>

JobsOf(f) == {j \in PassJobs : j.file = f}

\* C1: once a build run is done, and no autobuild rebuild has run since it
\* started, the flag file .autobuild is absent, whatever the flag was before
\* and whichever entries failed to bundle.
C1_FlagAbsentAfterBuild ==
    (buildPc = "done" /\ ~autoSinceClear) => ~flag

C1_Witness ==
    /\ buildPc = "done" /\ ~autoSinceClear /\ ~flag
    /\ flagAtStart
    /\ \E j \in PassJobs : j.stage = "failed"
    /\ \E j \in PassJobs : j.stage = "done"

\* C2: when autobuild runs and a change is reported for an entry, the flag
\* file that build removes is present once that rebuild has been processed.
C2_FlagPresentAfterChange ==
    [][updates' # updates => AUTO_BUILD_FLAG_FILE \in markers']_vars

\* C3: a bundling error of one entry is logged and does not abort the build:
\* the task never enters an error state, and when the pass is done every
\* entry whose bundling succeeded has its two artifacts on disk.
C3_ErrorDoesNotAbort ==
    /\ buildPc # "error"
    /\ \A j \in PassJobs : j.stage = "failed" => j.file \in log
    /\ buildPc = "done" =>
          \A j \in PassJobs : j.stage # "failed" =>
              /\ j.stage = "done"
              /\ Len(j.out) = 2
              /\ \A i \in 1..2 :
                    /\ j.out[i] \in DOMAIN dist
                    /\ dist[j.out[i]].entry = j.file.path
                    /\ dist[j.out[i]].min = (i = 2)

C3_Witness ==
    /\ buildPc = "done"
    /\ \E j \in JobsOf(FA) : j.stage = "failed"
    /\ \E j \in JobsOf(FB) :
          /\ j.stage = "done"
          /\ \A i \in 1..2 : j.out[i] \in DOMAIN dist
    /\ FA \in log

\* C4: a completed build pass has run exactly one pipeline per entry matched
\* by the glob, and a pipeline that succeeded has written exactly two
\* artifacts: the unminified one at the entry's path relative to its source
\* root under the output directory, then the minified one at the same path
\* with .min before the extension.  Nothing else is written.
C4_ArtifactPair ==
    /\ \A j \in PassJobs : j.file \in Entries /\ Cardinality(JobsOf(j.file)) = 1
    /\ \A p \in DOMAIN dist : \E f \in SourceTree \ {FX} :
          p \in {ExpectedUnmin(f), ExpectedMin(f)}
    /\ buildPc = "done" =>
          \A f \in SourceTree \ {FX} :
              /\ Cardinality(JobsOf(f)) = 1
              /\ \A j \in JobsOf(f) :
                    /\ j.stage = "done" =>
                          j.out = <<ExpectedUnmin(f), ExpectedMin(f)>>
                    /\ j.stage = "failed" => j.out = <<>>

C4_Witness ==
    /\ buildPc = "done"
    /\ \A f \in {FA, FB, FC} : \E j \in JobsOf(f) : j.stage = "done"
    /\ Cardinality(DOMAIN dist) = 6
    /\ APPS_DIST_DIR \o <<"login", "/", "b", ".", "min", ".", "js">>
          \in DOMAIN dist
    /\ APPS_DIST_DIR \o <<"c", ".", "d", ".", "min", ".", "js">>
          \in DOMAIN dist

\* C5: under autobuild a change notification for entry F rewrites F's
\* artifact pair and no other entry's: the rebuild it triggers is a bundle
\* run of F and of nothing else.
C5_RebuildWritesOnlyOwnPair ==
    [][\A f \in Entries :
          (updates' # updates /\ rebundleCalls'[f] > rebundleCalls[f]) =>
              {j.file : j \in jobs' \ jobs} = {f}]_vars

\* C6: in every reachable state the flag is present exactly when rebundle
\* has been invoked since the flag was last cleared by a build.
C6_FlagIffAutoRebuild == flag <=> autoSinceClear

C8_RebuildSetsFlagThenBundles ==
    [][\A f \in Entries :
          rebundleCalls'[f] > rebundleCalls[f] =>
              /\ flag'
              /\ \E j \in jobs' \ jobs :
                    j.task = "autobuild" /\ j.file = f]_vars

\* C10: getBundler leaves the options object of its caller unchanged; in
\* autobuild that object is watchify.args.
C10_OptionsUnchanged == [][watchifyArgs' = watchifyArgs]_vars
====
